---------------------------- MODULE Spec2Model ----------------------------
(***************************************************************************)
(* Model of coast_fire_dashboard.py: one top-to-bottom run of the script   *)
(* per input change (guardrails, core calculations, coast-by-age target,   *)
(* result panels, projection series), and the three time-value helpers     *)
(* fv_lump_sum, fv_with_contrib_annual and pmt_to_reach_fv.                *)
(*                                                                         *)
(* Numbers.  The script computes in Python floats, and so does the model:  *)
(* a float is a dyadic number over arbitrary-precision naturals, and each  *)
(* operation returns its exact result rounded to 53 bits, ties to even, as *)
(* IEEE-754 binary64 does.  The two non-numeric values the code produces   *)
(* itself, float("inf") and None, are values of their own.                 *)
(***************************************************************************)
EXTENDS Integers, Sequences, FiniteSets, TLC

(***************************************************************************)
(* Arbitrary-precision naturals: little-endian sequences of limbs in       *)
(* 0..Base-1 without leading zero limbs; zero is << >>.  Sums and products *)
(* are formed column by column and the carries are propagated afterwards,  *)
(* which keeps the evaluation shallow.  Each operator first binds its      *)
(* arguments to their values (Only({ ... : x \in {a} })), so that TLC      *)
(* computes an argument once however often the body reads it.              *)
(***************************************************************************)
LimbBits == 5 + 5

Base == 2^LimbBits

Only(S) == CHOOSE x \in S : TRUE

Limb(a, i) == IF 1 <= i /\ i <= Len(a) THEN a[i] ELSE 0

\* index of the most significant non-zero limb, 0 for zero
Top(a) ==
    LET nz == {i \in 1..Len(a) : a[i] # 0}
    IN  IF nz = {} THEN 0 ELSE CHOOSE i \in nz : \A j \in nz : j <= i

Trim(a) == Only({ SubSeq(x, 1, Top(x)) : x \in {a} })

\* the natural whose columns (of any size and sign, the total being >= 0)
\* are c: carries and borrows move up one limb per pass
RECURSIVE Carry(_)
Carry(c) ==
    Only({ IF \A i \in 1..Len(x) : 0 <= x[i] /\ x[i] < Base THEN Trim(x)
           ELSE Carry(SubSeq([i \in 1..Len(x) + 1 |->
                                 (Limb(x, i) % Base) + (Limb(x, i - 1) \div Base)],
                             1, Len(x) + 1))
           : x \in {c} })

\* the columns f[1..n] as a sequence
Cols(f, n) == SubSeq(f, 1, n)

RECURSIVE NatOf(_)
NatOf(i) == IF i = 0 THEN << >> ELSE <<i % Base>> \o NatOf(i \div Base)

\* the integer a natural below 2^31 stands for
RECURSIVE IntOfFrom(_, _)
IntOfFrom(a, i) == IF i > Len(a) THEN 0 ELSE a[i] + Base * IntOfFrom(a, i + 1)

IntOf(a) == Only({ IntOfFrom(x, 1) : x \in {a} })

NAdd(a, b) ==
    Only({ Carry(Cols([i \in 1..(IF Len(x) > Len(y) THEN Len(x) ELSE Len(y)) |->
                          Limb(x, i) + Limb(y, i)],
                      IF Len(x) > Len(y) THEN Len(x) ELSE Len(y)))
           : x \in {a}, y \in {b} })

\* a - b for a >= b
NSub(a, b) ==
    Only({ Carry(Cols([i \in 1..Len(x) |-> x[i] - Limb(y, i)], Len(x)))
           : x \in {a}, y \in {b} })

NMulLimb(a, d) ==
    Only({ Carry(Cols([i \in 1..Len(x) |-> x[i] * e], Len(x)))
           : x \in {a}, e \in {d} })

\* sum of a[i] * b[k + 1 - i] for i in lo..hi (a and b are values here)
RECURSIVE ColSum(_, _, _, _, _)
ColSum(a, b, k, lo, hi) ==
    IF lo > hi THEN 0
    ELSE IF lo = hi THEN a[lo] * b[k + 1 - lo]
    ELSE Only({ ColSum(a, b, k, lo, mid) + ColSum(a, b, k, mid + 1, hi)
                : mid \in {(lo + hi) \div 2} })

NMul(a, b) ==
    Only({ IF x = << >> \/ y = << >> THEN << >>
           ELSE Carry(Cols([k \in 1..(Len(x) + Len(y) - 1) |->
                               ColSum(x, y, k,
                                      IF k + 1 - Len(y) > 1 THEN k + 1 - Len(y) ELSE 1,
                                      IF k < Len(x) THEN k ELSE Len(x))],
                           Len(x) + Len(y) - 1))
           : x \in {a}, y \in {b} })

\* -1, 0 or 1 as a < b, a = b, a > b
NCmp(a, b) ==
    Only({ IF Len(x) > Len(y) THEN 1
           ELSE IF Len(x) < Len(y) THEN -1
           ELSE Only({ IF df = {} THEN 0
                       ELSE Only({ IF x[m] > y[m] THEN 1 ELSE -1
                                   : m \in {CHOOSE i \in df : \A j \in df : j <= i} })
                       : df \in { {i \in 1..Len(x) : x[i] # y[i]} } })
           : x \in {a}, y \in {b} })

\* largest d in lo..hi with d * b <= rem (rem and b are values here)
RECURSIVE QDigit(_, _, _, _)
QDigit(rem, b, lo, hi) ==
    IF lo = hi THEN lo
    ELSE Only({ IF NCmp(NMulLimb(b, mid), rem) <= 0
                THEN QDigit(rem, b, mid, hi)
                ELSE QDigit(rem, b, lo, mid - 1)
                : mid \in {(lo + hi + 1) \div 2} })

\* the value of the limbs i+1, i, i-1 of a (at most three limbs: below 2^31)
Limbs3(a, i) == (Limb(a, i + 1) * Base + Limb(a, i)) * Base + Limb(a, i - 1)

\* the next quotient limb, rem < Base * b: the largest d with d * b <= rem.
\* The top limbs of rem and b bracket d, the search settles it.
NextLimb(rem, b) ==
    Only({ IF Len(b) = 1 THEN n3 \div d2
           ELSE QDigit(rem, b, n3 \div (d2 + 1),
                       IF n3 \div d2 < Base THEN n3 \div d2 ELSE Base - 1)
           : n3 \in {IF Len(b) = 1 THEN Limb(rem, 2) * Base + Limb(rem, 1)
                     ELSE Limbs3(rem, Len(b))},
             d2 \in {IF Len(b) = 1 THEN b[1] ELSE b[Len(b)] * Base + b[Len(b) - 1]} })

\* long division: the limbs a[i], a[i-1], ..., a[1] are brought down one at
\* a time below the running quotient q and remainder rm (all values here)
RECURSIVE NDivFrom(_, _, _, _, _)
NDivFrom(a, b, i, q, rm) ==
    IF i = 0 THEN <<q, rm>>
    ELSE Only({ Only({ NDivFrom(a, b, i - 1, Trim(<<d>> \o q), NSub(rem, NMulLimb(b, d)))
                       : d \in {NextLimb(rem, b)} })
                : rem \in {Trim(<<a[i]>> \o rm)} })

\* <<a div b, a mod b>> for b # 0; the top Len(b) - 1 limbs of a are below b
\* and start as the remainder
NDivMod(a, b) ==
    Only({ IF NCmp(x, y) < 0 THEN << << >>, x >>
           ELSE Only({ NDivFrom(x, y, k, << >>, Trim(SubSeq(x, k + 1, Len(x))))
                       : k \in {Len(x) - Len(y) + 1} })
           : x \in {a}, y \in {b} })

NIsOdd(a) == Only({ x # << >> /\ x[1] % 2 = 1 : x \in {a} })

\* a^n by repeated squaring
RECURSIVE NPow(_, _)
NPow(a, n) ==
    IF n = 0 THEN <<1>>
    ELSE Only({ IF n % 2 = 0 THEN NMul(h, h) ELSE NMul(NMul(h, h), x)
                : x \in {a}, h \in {NPow(a, n \div 2)} })

\* number of bits of a: 0 for zero
BitLen(a) ==
    Only({ IF x = << >> THEN 0
           ELSE (Len(x) - 1) * LimbBits
                + (CHOOSE b \in 1..LimbBits : 2^(b - 1) <= x[Len(x)] /\ x[Len(x)] < 2^b)
           : x \in {a} })

\* number of zero bits below the lowest set bit of a # 0
TrailingZeros(a) ==
    Only({ Only({ (j - 1) * LimbBits
                  + (CHOOSE b \in 0..(LimbBits - 1) :
                        x[j] % 2^b = 0 /\ x[j] % 2^(b + 1) # 0)
                  : j \in {CHOOSE i \in 1..Len(x) :
                              x[i] # 0 /\ \A h \in 1..(i - 1) : x[h] = 0} })
           : x \in {a} })

\* a * 2^k
ShiftLeft(a, k) ==
    Only({ IF x = << >> THEN << >>
           ELSE [i \in 1..(k \div LimbBits) |-> 0]
                \o Carry(Cols([i \in 1..Len(x) |-> x[i] * 2^(k % LimbBits)], Len(x)))
           : x \in {a} })

\* a div 2^k
ShiftRight(a, k) ==
    Only({ Only({ Trim(Cols([i \in 1..(Len(x) - drop) |->
                               (x[i + drop] \div 2^b)
                               + (Limb(x, i + drop + 1) % 2^b) * 2^(LimbBits - b)],
                            IF Len(x) > drop THEN Len(x) - drop ELSE 0))
                  : drop \in {k \div LimbBits}, b \in {k % LimbBits} })
           : x \in {a} })

\* bit k of a, bit 0 being the lowest
BitAt(a, k) == (Limb(a, k \div LimbBits + 1) \div 2^(k % LimbBits)) % 2

\* whether the k lowest bits of a are all zero
LowBitsZero(a, k) ==
    Only({ /\ \A i \in 1..(k \div LimbBits) : Limb(x, i) = 0
           /\ Limb(x, k \div LimbBits + 1) % 2^(k % LimbBits) = 0
           : x \in {a} })

\* a / 2^k rounded to the nearest natural, ties to the even one
ShiftRightHalfEven(a, k) ==
    IF k <= 0 THEN ShiftLeft(a, -k)
    ELSE Only({ Only({ IF BitAt(x, k - 1) = 1 /\ (~LowBitsZero(x, k - 1) \/ NIsOdd(q))
                       THEN NAdd(q, <<1>>) ELSE q
                       : q \in {ShiftRight(x, k)} })
                : x \in {a} })

(***************************************************************************)
(* Python float values.  A finite float is the dyadic number               *)
(* [neg, m, e] = (-1)^neg * m * 2^e with m odd, or m zero and e = 0, so    *)
(* that equal numbers are equal records (up to the sign of zero).  The X   *)
(* operators compute exactly; the F operators are Python's float           *)
(* operators: the exact result rounded to Precision bits, ties to even     *)
(* (IEEE-754 binary64, round-to-nearest).  Exponent range, overflow and    *)
(* subnormals are not modelled: the values of the model stay far from      *)
(* both ends.  Inf is float("inf") and None is Python's None.              *)
(***************************************************************************)
Precision == 52 + 1

Inf == [special |-> "inf"]

None == [special |-> "None"]

IsNum(v) == DOMAIN v = {"neg", "m", "e"}

\* (-1)^neg * m * 2^e in its one representation
Dyadic(neg, m, e) ==
    Only({ IF x = << >> THEN [neg |-> neg, m |-> << >>, e |-> 0]
           ELSE Only({ [neg |-> neg, m |-> ShiftRight(x, tz), e |-> e + tz]
                       : tz \in {TrailingZeros(x)} })
           : x \in {m} })

\* the integer i
FInt(i) == Dyadic(i < 0, NatOf(IF i < 0 THEN -i ELSE i), 0)

Zero == FInt(0)

One == FInt(1)

IsZero(x) == x.m = << >>

\* -1, 0 or 1 as |u| < |v|, |u| = |v|, |u| > |v| (u and v are values here)
MagCmp(u, v) ==
    IF u.e >= v.e THEN NCmp(ShiftLeft(u.m, u.e - v.e), v.m)
    ELSE NCmp(u.m, ShiftLeft(v.m, v.e - u.e))

\* -1, 0 or 1 as x < y, x = y, x > y; the two zeros are equal
XCmp(x, y) ==
    Only({ IF IsZero(u) /\ IsZero(v) THEN 0
           ELSE IF IsZero(u) THEN (IF v.neg THEN 1 ELSE -1)
           ELSE IF IsZero(v) THEN (IF u.neg THEN -1 ELSE 1)
           ELSE IF u.neg # v.neg THEN (IF u.neg THEN -1 ELSE 1)
           ELSE IF u.neg THEN -MagCmp(u, v) ELSE MagCmp(u, v)
           : u \in {x}, v \in {y} })

FEq(x, y) == XCmp(x, y) = 0

FLe(x, y) == XCmp(x, y) <= 0

FLt(x, y) == XCmp(x, y) < 0

\* -x: the sign bit flips, also that of zero
FNeg(x) == Only({ [u EXCEPT !.neg = ~u.neg] : u \in {x} })

\* abs(x)
FAbs(x) == Only({ [u EXCEPT !.neg = FALSE] : u \in {x} })

\* max(x, y) as Python computes it: y if y > x, else x
FMax(x, y) == Only({ IF FLt(u, v) THEN v ELSE u : u \in {x}, v \in {y} })

\* the exact sum; a zero sum is +0 unless both terms are -0
XAdd(x, y) ==
    Only({ Only({ IF u.neg = v.neg THEN Dyadic(u.neg, NAdd(a, b), e)
                  ELSE IF NCmp(a, b) = 0 THEN Dyadic(FALSE, << >>, 0)
                  ELSE IF NCmp(a, b) > 0 THEN Dyadic(u.neg, NSub(a, b), e)
                  ELSE Dyadic(v.neg, NSub(b, a), e)
                  : e \in {IF u.e < v.e THEN u.e ELSE v.e},
                    a \in {ShiftLeft(u.m, IF u.e > v.e THEN u.e - v.e ELSE 0)},
                    b \in {ShiftLeft(v.m, IF v.e > u.e THEN v.e - u.e ELSE 0)} })
           : u \in {x}, v \in {y} })

XSub(x, y) == XAdd(x, FNeg(y))

\* the exact product
XMul(x, y) ==
    Only({ Dyadic(u.neg # v.neg, NMul(u.m, v.m), u.e + v.e) : u \in {x}, v \in {y} })

\* the exact power x^n, n >= 0
XPow(x, n) ==
    Only({ Dyadic(u.neg /\ n % 2 = 1, NPow(u.m, n), u.e * n) : u \in {x} })

\* the float nearest to the dyadic number x
Round(x) ==
    Only({ Only({ IF k <= 0 THEN u
                  ELSE Dyadic(u.neg, ShiftRightHalfEven(u.m, k), u.e + k)
                  : k \in {BitLen(u.m) - Precision} })
           : u \in {x} })

\* the float nearest to x / y, for dyadic numbers x and y # 0: the quotient
\* of the mantissas is taken to Precision + 2 bits or more and a last bit
\* records whether anything is left over
DivRound(x, y) ==
    Only({ IF IsZero(u) THEN Dyadic(u.neg # v.neg, << >>, 0)
           ELSE Only({ Only({ Round(Dyadic(u.neg # v.neg,
                                           NAdd(ShiftLeft(qr[1], 1),
                                                IF qr[2] = << >> THEN << >> ELSE <<1>>),
                                           u.e - v.e - s - 1))
                              : qr \in {NDivMod(ShiftLeft(u.m, s), v.m)} })
                       : s \in {IF Precision + 2 + BitLen(v.m) - BitLen(u.m) > 0
                                THEN Precision + 2 + BitLen(v.m) - BitLen(u.m) ELSE 0} })
           : u \in {x}, v \in {y} })

\* x + y
FAdd(x, y) == Round(XAdd(x, y))

\* x - y
FSub(x, y) == Round(XSub(x, y))

\* x * y
FMul(x, y) == Round(XMul(x, y))

\* x / y for y # 0 (Python raises ZeroDivisionError for y = 0)
FDiv(x, y) == DivRound(x, y)

\* x ** n for an integer n: the C library's pow(x, n), taken as the float
\* nearest to the exact power (the reciprocal power for n < 0)
FPow(x, n) ==
    IF n >= 0 THEN Round(XPow(x, n)) ELSE DivRound(One, XPow(x, -n))

\* the float nearest to i / j for integers i and j > 0: the float a decimal
\* literal or widget value i/j stands for
Ratio(i, j) == FDiv(FInt(i), FInt(j))

\* |x| rounded to the nearest integer, ties to the even one (the "0f"
\* format); the result is below 2^31 for every amount of the model
RoundHalfEven(x) == Only({ IntOf(ShiftRightHalfEven(u.m, -u.e)) : u \in {x} })

(***************************************************************************)
(* Helpers                                                                 *)
(***************************************************************************)
Dash == [shown |-> "dash"]

\* money(x): a dash for None and inf, else x rounded to whole dollars with
\* its sign (nan, the third dash case, is no value of a run: none of the
\* operations above yields one from finite operands)
money(x) ==
    Only({ IF v = None \/ v = Inf THEN Dash
           ELSE [neg |-> v.neg, dollars |-> RoundHalfEven(v)]
           : v \in {x} })

\* the literal 1e-12
Tolerance == FDiv(One, XPow(FInt(10), 12))

\* abs(r) < 1e-12
NearZero(r) == FLt(FAbs(r), Tolerance)

\* fault variant of fv_lump_sum: simple instead of compound interest
fv_lump_sum_SimpleInterest(pv, r, n) == FMul(pv, FAdd(One, FMul(r, FInt(n))))

fv_lump_sum(pv, r, n) == FMul(pv, FPow(FAdd(One, r), n))

\* fault variant of fv_with_contrib_annual: the first year is skipped too
fv_with_contrib_annual_SkipsFirstYear(pv, r, n, annual_contrib) ==
    IF n <= 1 THEN pv
    ELSE IF NearZero(r) THEN FAdd(pv, FMul(annual_contrib, FInt(n)))
    ELSE LET growth         == FPow(FAdd(One, r), n)
             annuity_factor == FDiv(FSub(growth, One), r)
         IN  FAdd(FMul(pv, growth), FMul(annual_contrib, annuity_factor))

\* fault variant of fv_with_contrib_annual: contributions are subtracted
fv_with_contrib_annual_Withdraws(pv, r, n, annual_contrib) ==
    IF n <= 0 THEN pv
    ELSE IF NearZero(r) THEN FSub(pv, FMul(annual_contrib, FInt(n)))
    ELSE LET growth         == FPow(FAdd(One, r), n)
             annuity_factor == FDiv(FSub(growth, One), r)
         IN  FSub(FMul(pv, growth), FMul(annual_contrib, annuity_factor))

fv_with_contrib_annual(pv, r, n, annual_contrib) ==
    IF n <= 0 THEN pv
    ELSE IF NearZero(r) THEN FAdd(pv, FMul(annual_contrib, FInt(n)))
    ELSE LET growth         == FPow(FAdd(One, r), n)
             annuity_factor == FDiv(FSub(growth, One), r)
         IN  FAdd(FMul(pv, growth), FMul(annual_contrib, annuity_factor))

\* fault variant of pmt_to_reach_fv: zero periods always need nothing
pmt_to_reach_fv_ZeroWhenNoPeriods(pv, r, n, fv_target) ==
    IF n <= 0 THEN Zero
    ELSE IF NearZero(r)
         THEN LET needed == FMax(Zero, FSub(fv_target, pv))
              IN  FDiv(needed, FInt(n))
    ELSE LET growth         == FPow(FAdd(One, r), n)
             growth_pv      == FMul(pv, growth)
             remaining      == FSub(fv_target, growth_pv)
             annuity_factor == FDiv(FSub(growth, One), r)
         IN  IF FLe(remaining, Zero) THEN Zero
             ELSE FDiv(remaining, annuity_factor)

\* fault variant of pmt_to_reach_fv: the remainder is spread evenly over
\* the years, the growth of the payments forgotten
pmt_to_reach_fv_NoAnnuity(pv, r, n, fv_target) ==
    IF n <= 0 THEN (IF FLe(fv_target, pv) THEN Zero ELSE Inf)
    ELSE IF NearZero(r)
         THEN LET needed == FMax(Zero, FSub(fv_target, pv))
              IN  FDiv(needed, FInt(n))
    ELSE LET growth         == FPow(FAdd(One, r), n)
             growth_pv      == FMul(pv, growth)
             remaining      == FSub(fv_target, growth_pv)
         IN  IF FLe(remaining, Zero) THEN Zero
             ELSE FDiv(remaining, FInt(n))

pmt_to_reach_fv(pv, r, n, fv_target) ==
    IF n <= 0 THEN (IF FLe(fv_target, pv) THEN Zero ELSE Inf)
    ELSE IF NearZero(r)
         THEN LET needed == FMax(Zero, FSub(fv_target, pv))
              IN  FDiv(needed, FInt(n))
    ELSE LET growth         == FPow(FAdd(One, r), n)
             growth_pv      == FMul(pv, growth)
             remaining      == FSub(fv_target, growth_pv)
             annuity_factor == FDiv(FSub(growth, One), r)
         IN  IF FLe(remaining, Zero) THEN Zero
             ELSE FDiv(remaining, annuity_factor)


(***************************************************************************)
(* The script's state.  A name the run has not assigned yet holds Unset.   *)
(***************************************************************************)
VARIABLES
    pc,             \* the block of the script that runs next
    inputs,         \* the values the sidebar widgets return (lines 71-130)
    r,              \* the real annual rate (lines 111, 118)
    setup,          \* years_to_retire and swr (lines 137-138)
    core,           \* fire_number ... gap (lines 145-150)
    coast,          \* years_to_coast ... annual_needed_... (lines 153-160)
    pmt_calls,      \* the arguments of each pmt_to_reach_fv call of the run
    error,          \* the st.error message shown, "" for none
    results_panel,  \* what the Results column shows (lines 165-187)
    goal_panel,     \* what the Coast-by-age column shows (lines 189-204)
    series,         \* years, ages and the three chart series (lines 210-215)
    call            \* a direct call of one helper: its arguments and result

vars == <<pc, inputs, r, setup, core, coast, pmt_calls, error,
          results_panel, goal_panel, series, call>>

Unset == [special |-> "unset"]

NoCall == [fn |-> "none"]

(***************************************************************************)
(* Widget values.  Every widget has the default the source gives it; the   *)
(* other values lie inside the widget's min_value..max_value.              *)
(***************************************************************************)
DefaultCurrentAge == 28

DefaultRetireAge == 60

DefaultCoastAge == 40

DefaultPortfolio == 50000

DefaultSpending == 40000

DefaultSwrPct == 4

DefaultRealPct == 7

DefaultNominalPct == 10

DefaultInflationPct == 3

DefaultContrib == 0

\* ages of the small scenarios: 0..MaxAge
MaxAge == 2

RealRate(pct) == [use_real |-> TRUE, r_pct |-> pct]

NominalRate(nominal, inflation) ==
    [use_real |-> FALSE, nominal_pct |-> nominal, inflation_pct |-> inflation]

\* a real return of 1e-11 percent: a rate of 1e-13, inside the 1e-12 band
TinyPct == FDiv(One, XPow(FInt(10), 11))

RateInputs ==
    { RealRate(FInt(-5)), RealRate(Zero), RealRate(TinyPct),
      RealRate(FInt(DefaultRealPct)),
      NominalRate(FInt(DefaultNominalPct), FInt(DefaultInflationPct)),
      NominalRate(FInt(DefaultInflationPct), FInt(DefaultInflationPct)) }

Portfolios == {Zero, FInt(900), FInt(1000)}

Spendings == {Zero, FInt(40)}

SwrPcts == {Ratio(1, 2), FInt(DefaultSwrPct)}

Contribs == {FInt(DefaultContrib), FInt(50)}

DefaultInputs ==
    [ current_age       |-> DefaultCurrentAge,
      retire_age        |-> DefaultRetireAge,
      coast_age         |-> DefaultCoastAge,
      current_portfolio |-> FInt(DefaultPortfolio),
      annual_spending   |-> FInt(DefaultSpending),
      swr_pct           |-> FInt(DefaultSwrPct),
      rate              |-> RealRate(FInt(DefaultRealPct)),
      annual_contrib    |-> FInt(DefaultContrib) ]

SmallInputs ==
    [ current_age       : 0..MaxAge,
      retire_age        : 0..MaxAge,
      coast_age         : 0..MaxAge,
      current_portfolio : Portfolios,
      annual_spending   : Spendings,
      swr_pct           : SwrPcts,
      rate              : RateInputs,
      annual_contrib    : Contribs ]

\* the defaults, the defaults with a portfolio of 1,000,000, the defaults
\* at age 30 with 6,000 a year contributed, and the small scenarios
Scenarios ==
    { DefaultInputs,
      [DefaultInputs EXCEPT !.current_portfolio = FInt(1000000)],
      [DefaultInputs EXCEPT !.current_age = 30, !.annual_contrib = FInt(6000)] }
    \cup SmallInputs


(***************************************************************************)
(* The expressions of the script, one operator each.                       *)
(***************************************************************************)
Hundred == FInt(100)

\* lines 103-119: the rate from the real-return widget, or from nominal
\* return and inflation
RateOf(rate) ==
    IF rate.use_real THEN FDiv(rate.r_pct, Hundred)
    ELSE LET nominal   == FDiv(rate.nominal_pct, Hundred)
             inflation == FDiv(rate.inflation_pct, Hundred)
         IN  FSub(FDiv(FAdd(One, nominal), FAdd(One, inflation)), One)

\* fault variant of line 133: < for <=
RetireAgeRejected_Strict(inp) == inp.retire_age < inp.current_age

\* line 133
RetireAgeRejected(inp) == inp.retire_age <= inp.current_age

\* line 140
SwrRejected(swr) == FLe(swr, Zero)

\* fault variant of line 149: > for >=
CoastNow_Strict(fv_if_coast_now, fire_number) == FLt(fire_number, fv_if_coast_now)

\* line 149
CoastNow(fv_if_coast_now, fire_number) == FLe(fire_number, fv_if_coast_now)

\* line 150
Gap(fire_number, fv_if_coast_now) == FSub(fire_number, fv_if_coast_now)

\* fault variant of line 147: the target is compounded, not discounted
RequiredToday_Compounds(fire_number, rate, years_to_retire) ==
    FMul(fire_number, FPow(FAdd(One, rate), years_to_retire))

\* line 147
RequiredToday(fire_number, rate, years_to_retire) ==
    FDiv(fire_number, FPow(FAdd(One, rate), years_to_retire))

\* line 153
YearsToCoast(inp) ==
    IF inp.coast_age - inp.current_age > 0 THEN inp.coast_age - inp.current_age ELSE 0

\* line 154
YearsFromCoastToRetire(inp) ==
    IF inp.retire_age - inp.coast_age > 0 THEN inp.retire_age - inp.coast_age ELSE 0

\* lines 155-157
RequiredAtCoastAge(fire_number, rate, years_from_coast_to_retire) ==
    IF years_from_coast_to_retire > 0
    THEN FDiv(fire_number, FPow(FAdd(One, rate), years_from_coast_to_retire))
    ELSE fire_number

\* fault variant of lines 158-160: >= for >
PmtApplies_AtZero(years_to_coast) == years_to_coast >= 0

\* lines 158-160: whether pmt_to_reach_fv is called at all
PmtApplies(years_to_coast) == years_to_coast > 0

\* fault variant of line 210: list(range(0, years_to_retire))
Years_Exclusive(years_to_retire) == [i \in 1..years_to_retire |-> i - 1]

\* line 210: list(range(0, years_to_retire + 1))
Years(years_to_retire) == [i \in 1..(years_to_retire + 1) |-> i - 1]

\* lines 195-204: the branch of the coast-by-age panel
GoalBranch(years_to_coast, annual_needed) ==
    IF years_to_coast <= 0 THEN "not_applicable"
    ELSE IF annual_needed # None /\ annual_needed # Inf /\ FLe(annual_needed, Zero)
         THEN "zero_added"
    ELSE "needed"

(***************************************************************************)
(* One run of the script, block by block.                                  *)
(***************************************************************************)
Init ==
    /\ pc = "sidebar"
    /\ inputs \in Scenarios
    /\ r = Unset
    /\ setup = Unset
    /\ core = Unset
    /\ coast = Unset
    /\ pmt_calls = << >>
    /\ error = ""
    /\ results_panel = Unset
    /\ goal_panel = Unset
    /\ series = Unset
    /\ call = NoCall

\* lines 67-130
Sidebar ==
    /\ pc = "sidebar"
    /\ r' = RateOf(inputs.rate)
    /\ pc' = "guard_age"
    /\ UNCHANGED <<inputs, setup, core, coast, pmt_calls, error,
                   results_panel, goal_panel, series, call>>

\* lines 133-138
GuardRetireAge ==
    /\ pc = "guard_age"
    /\ IF RetireAgeRejected(inputs)
       THEN /\ error' = "Retirement age must be greater than current age."
            /\ pc' = "stopped"
            /\ UNCHANGED setup
       ELSE /\ setup' = [ years_to_retire |-> inputs.retire_age - inputs.current_age,
                          swr             |-> FDiv(inputs.swr_pct, Hundred) ]
            /\ pc' = "guard_swr"
            /\ UNCHANGED error
    /\ UNCHANGED <<inputs, r, core, coast, pmt_calls,
                   results_panel, goal_panel, series, call>>

\* lines 140-142
GuardSwr ==
    /\ pc = "guard_swr"
    /\ IF SwrRejected(setup.swr)
       THEN /\ error' = "Safe withdrawal rate must be greater than 0."
            /\ pc' = "stopped"
       ELSE /\ pc' = "core"
            /\ UNCHANGED error
    /\ UNCHANGED <<inputs, r, setup, core, coast, pmt_calls,
                   results_panel, goal_panel, series, call>>

\* lines 145-150
CoreCalculations ==
    /\ pc = "core"
    /\ LET fire_number     == FDiv(inputs.annual_spending, setup.swr)
           fv_if_coast_now == fv_lump_sum(inputs.current_portfolio, r, setup.years_to_retire)
       IN  core' = [ fire_number              |-> fire_number,
                     fv_if_coast_now          |-> fv_if_coast_now,
                     required_today_for_coast |->
                         RequiredToday(fire_number, r, setup.years_to_retire),
                     coast_now                |-> CoastNow(fv_if_coast_now, fire_number),
                     gap                      |-> Gap(fire_number, fv_if_coast_now) ]
    /\ pc' = "coast_target"
    /\ UNCHANGED <<inputs, r, setup, coast, pmt_calls, error,
                   results_panel, goal_panel, series, call>>

\* lines 153-160
CoastTarget ==
    /\ pc = "coast_target"
    /\ LET years_to_coast             == YearsToCoast(inputs)
           years_from_coast_to_retire == YearsFromCoastToRetire(inputs)
           required_at_coast_age      ==
               RequiredAtCoastAge(core.fire_number, r, years_from_coast_to_retire)
           applies                    == PmtApplies(years_to_coast)
       IN  /\ coast' =
                 [ years_to_coast             |-> years_to_coast,
                   years_from_coast_to_retire |-> years_from_coast_to_retire,
                   required_at_coast_age      |-> required_at_coast_age,
                   annual_needed_to_hit_coast_by_coast_age |->
                       IF applies
                       THEN pmt_to_reach_fv(inputs.current_portfolio, r,
                                            years_to_coast, required_at_coast_age)
                       ELSE None ]
           /\ pmt_calls' =
                 IF applies
                 THEN Append(pmt_calls, [ pv        |-> inputs.current_portfolio,
                                          r         |-> r,
                                          n         |-> years_to_coast,
                                          fv_target |-> required_at_coast_age ])
                 ELSE pmt_calls
    /\ pc' = "results"
    /\ UNCHANGED <<inputs, r, setup, core, error,
                   results_panel, goal_panel, series, call>>

\* lines 165-187
ResultsPanel ==
    /\ pc = "results"
    /\ results_panel' =
          [ m1     |-> money(core.fire_number),
            m2     |-> money(core.fv_if_coast_now),
            m3     |-> money(core.required_today_for_coast),
            m4     |-> setup.years_to_retire,
            banner |-> IF core.coast_now THEN "success" ELSE "warning",
            amount |-> IF core.coast_now THEN money(FNeg(core.gap)) ELSE money(core.gap) ]
    /\ pc' = "goal"
    /\ UNCHANGED <<inputs, r, setup, core, coast, pmt_calls, error,
                   goal_panel, series, call>>

\* lines 189-204
GoalPanel ==
    /\ pc = "goal"
    /\ LET needed == coast.annual_needed_to_hit_coast_by_coast_age
           branch == GoalBranch(coast.years_to_coast, needed)
           head   == [ required |-> money(coast.required_at_coast_age),
                       branch   |-> branch ]
       IN  goal_panel' =
              IF branch = "needed"
              THEN head @@ [ annual  |-> money(needed),
                             monthly |-> money(IF needed = Inf THEN Inf
                                               ELSE FDiv(needed, FInt(12))) ]
              ELSE head
    /\ pc' = "series"
    /\ UNCHANGED <<inputs, r, setup, core, coast, pmt_calls, error,
                   results_panel, series, call>>

\* lines 210-215
Series ==
    /\ pc = "series"
    /\ LET years == Years(setup.years_to_retire)
       IN  series' =
              [ years               |-> years,
                ages                |-> [i \in DOMAIN years |-> inputs.current_age + years[i]],
                no_contrib_series   |->
                    [i \in DOMAIN years |->
                        fv_lump_sum(inputs.current_portfolio, r, years[i])],
                with_contrib_series |->
                    [i \in DOMAIN years |->
                        fv_with_contrib_annual(inputs.current_portfolio, r, years[i],
                                               inputs.annual_contrib)],
                fire_line           |-> [i \in DOMAIN years |-> core.fire_number] ]
    /\ pc' = "done"
    /\ UNCHANGED <<inputs, r, setup, core, coast, pmt_calls, error,
                   results_panel, goal_panel, call>>

Next ==
    \/ Sidebar
    \/ GuardRetireAge
    \/ GuardSwr
    \/ CoreCalculations
    \/ CoastTarget
    \/ ResultsPanel
    \/ GoalPanel
    \/ Series

Spec == Init /\ [][Next]_vars


(***************************************************************************)
(* The helpers called directly: the arguments are drawn from small sets    *)
(* and each action applies one helper to them.                             *)
(***************************************************************************)
\* periods of the direct calls: -1..MaxN
MaxN == 3

\* the rates of the runs, and a real return of -1e-11 percent
FnRates == {RateOf(x) : x \in RateInputs \cup {RealRate(FNeg(TinyPct))}}

FnTargets == {Zero, FInt(1000), FInt(8000)}

FnContribs == Contribs \cup {FInt(100)}

FnArgs ==
    [ fn : {"none"}, pv : Portfolios, r : FnRates, n : -1..MaxN,
      c : FnContribs, target : FnTargets, out : {None} ]

FnInit ==
    /\ pc = "idle"
    /\ inputs = DefaultInputs
    /\ r = Unset
    /\ setup = Unset
    /\ core = Unset
    /\ coast = Unset
    /\ pmt_calls = << >>
    /\ error = ""
    /\ results_panel = Unset
    /\ goal_panel = Unset
    /\ series = Unset
    /\ call \in FnArgs

Idle == UNCHANGED <<pc, inputs, r, setup, core, coast, pmt_calls, error,
                    results_panel, goal_panel, series>>

CallFvLumpSum ==
    /\ pc = "idle" /\ call.fn = "none"
    /\ call' = [call EXCEPT !.fn = "fv_lump_sum",
                            !.out = fv_lump_sum(call.pv, call.r, call.n)]
    /\ Idle

CallFvWithContrib ==
    /\ pc = "idle" /\ call.fn = "none"
    /\ call' = [call EXCEPT !.fn = "fv_with_contrib_annual",
                            !.out = fv_with_contrib_annual(call.pv, call.r, call.n, call.c)]
    /\ Idle

CallPmt ==
    /\ pc = "idle" /\ call.fn = "none"
    /\ call' = [call EXCEPT !.fn = "pmt_to_reach_fv",
                            !.out = pmt_to_reach_fv(call.pv, call.r, call.n, call.target)]
    /\ Idle

FnNext ==
    \/ CallFvLumpSum
    \/ CallFvWithContrib
    \/ CallPmt

FnSpec == FnInit /\ [][FnNext]_vars


(***************************************************************************)
(* Properties of a run (specification Spec)                                *)
(***************************************************************************)
Derived == <<core, coast, results_panel, goal_panel, series>>

NothingDerived ==
    /\ \A i \in DOMAIN Derived : Derived[i] = Unset
    /\ pmt_calls = << >>

\* C1: a run with retire_age <= current_age or swr <= 0 shows an error and
\* stops with no derived metric, panel or series row computed; a run that
\* reaches the core calculations has retire_age > current_age, hence
\* years_to_retire >= 1, and swr > 0; a finished run has all its results.
C1_ValidationGate ==
    /\ (inputs.retire_age <= inputs.current_age /\ pc \notin {"sidebar", "guard_age"})
          => pc = "stopped"
    /\ (FLe(inputs.swr_pct, Zero) /\ pc \notin {"sidebar", "guard_age", "guard_swr"})
          => pc = "stopped"
    /\ pc = "stopped" => (error # "" /\ NothingDerived)
    /\ pc \in {"sidebar", "guard_age", "guard_swr"} => NothingDerived
    /\ core # Unset =>
          /\ inputs.retire_age > inputs.current_age
          /\ setup.years_to_retire = inputs.retire_age - inputs.current_age
          /\ setup.years_to_retire >= 1
          /\ FLt(Zero, setup.swr)
          /\ error = ""
    /\ pc = "done" => \A i \in DOMAIN Derived : Derived[i] # Unset

C1_Witness ==
    /\ pc = "stopped"
    /\ inputs.retire_age = inputs.current_age
    /\ error = "Retirement age must be greater than current age."

\* C2: when coast_age <= current_age the annual-needed metric is None (not
\* zero, not infinite), pmt_to_reach_fv is not called (and no run ever calls
\* it with n <= 0), and the coast-by-age panel takes the "not applicable"
\* branch, showing no annual or monthly amount and no "$0 added" success.
C2_NotApplicable ==
    /\ \A i \in DOMAIN pmt_calls : pmt_calls[i].n > 0
    /\ (coast # Unset /\ inputs.coast_age <= inputs.current_age) =>
          /\ coast.years_to_coast = 0
          /\ coast.annual_needed_to_hit_coast_by_coast_age = None
          /\ coast.annual_needed_to_hit_coast_by_coast_age # Zero
          /\ coast.annual_needed_to_hit_coast_by_coast_age # Inf
          /\ pmt_calls = << >>
    /\ (goal_panel # Unset /\ inputs.coast_age <= inputs.current_age) =>
          /\ goal_panel.branch = "not_applicable"
          /\ DOMAIN goal_panel = {"required", "branch"}

C2_Witness ==
    /\ pc = "done"
    /\ inputs.coast_age < inputs.current_age
    /\ goal_panel.branch = "not_applicable"
    /\ FLt(inputs.current_portfolio, coast.required_at_coast_age)

\* C3: coast_now holds exactly when gap <= 0; the "Coast FIRE" branch shows
\* the surplus -gap, which is >= 0, and the "Not Coast FIRE" branch shows
\* the shortfall gap, which is > 0.
C3_CoastNowIffGap ==
    /\ core # Unset =>
          /\ core.coast_now <=> FLe(core.gap, Zero)
          /\ FEq(core.gap, FSub(core.fire_number, core.fv_if_coast_now))
    /\ results_panel # Unset =>
          IF results_panel.banner = "success"
          THEN /\ core.coast_now
               /\ FLe(Zero, FNeg(core.gap))
               /\ results_panel.amount = money(FNeg(core.gap))
          ELSE /\ results_panel.banner = "warning"
               /\ ~core.coast_now
               /\ FLt(Zero, core.gap)
               /\ results_panel.amount = money(core.gap)

C3_Witness ==
    /\ results_panel # Unset
    /\ results_panel.banner = "success"
    /\ FEq(core.gap, Zero)
    /\ ~IsZero(core.fire_number)

\* C4: the series have years_to_retire + 1 rows, for the years
\* 0..years_to_retire in order; row y has age current_age + y, the balances
\* fv_lump_sum(current_portfolio, r, y) and
\* fv_with_contrib_annual(current_portfolio, r, y, annual_contrib), and the
\* same fire_number; ages 30 to 60 give 31 rows.
C4_SeriesRows ==
    series # Unset =>
       /\ \A f \in DOMAIN series : Len(series[f]) = setup.years_to_retire + 1
       /\ Len(series.years) >= 2
       /\ series.ages[1] = inputs.current_age
       /\ series.ages[Len(series.ages)] = inputs.retire_age
       /\ \A i \in 1..Len(series.years) :
             /\ series.years[i] = i - 1
             /\ series.ages[i] = inputs.current_age + (i - 1)
             /\ FEq(series.no_contrib_series[i],
                    fv_lump_sum(inputs.current_portfolio, r, i - 1))
             /\ FEq(series.with_contrib_series[i],
                    fv_with_contrib_annual(inputs.current_portfolio, r, i - 1,
                                           inputs.annual_contrib))
             /\ FEq(series.fire_line[i], core.fire_number)
       /\ (inputs.current_age = 30 /\ inputs.retire_age = 60) =>
             (Len(series.years) = 31 /\ series.ages[1] = 30 /\ series.ages[31] = 60)

C4_Witness ==
    /\ pc = "done"
    /\ inputs.current_age = 30 /\ inputs.retire_age = 60
    /\ Len(series.ages) = 31
    /\ ~IsZero(inputs.annual_contrib)

Dollars(n) == [neg |-> FALSE, dollars |-> n]

\* C8 as the specification states it: the defaults (28, 60, 50000, 40000,
\* 4%, 7% real) give a FIRE number of 1,000,000, 32 years, a no-contribution
\* value of about 430,236, not Coast FIRE, and a gap of about 569,764
\* (amounts to the whole dollar, as the panel shows them).
C8_AsStated ==
    (inputs = DefaultInputs /\ results_panel # Unset) =>
       /\ results_panel.m1 = Dollars(1000000)
       /\ results_panel.m4 = 32
       /\ results_panel.m2 = Dollars(430236)
       /\ ~core.coast_now
       /\ results_panel.amount = Dollars(569764)

\* C8, amended: the no-contribution value 50000 * 1.07^32 is about 435,764
\* and the gap about 564,236; the FIRE number is exactly 1,000,000.
C8_WorkedExample ==
    (inputs = DefaultInputs /\ results_panel # Unset) =>
       /\ FEq(core.fire_number, FInt(1000000))
       /\ results_panel.m1 = Dollars(1000000)
       /\ setup.years_to_retire = 32
       /\ results_panel.m4 = 32
       /\ FLt(FInt(435763), core.fv_if_coast_now)
       /\ FLt(core.fv_if_coast_now, FInt(435764))
       /\ results_panel.m2 = Dollars(435764)
       /\ ~core.coast_now
       /\ results_panel.banner = "warning"
       /\ money(core.gap) = Dollars(564236)
       /\ results_panel.amount = Dollars(564236)

C8_Witness ==
    /\ inputs = DefaultInputs
    /\ pc = "done"
    /\ results_panel.m2 = Dollars(435764)

\* 2^-50: four units in the last place of a float
RoundingSlack == Dyadic(FALSE, <<1>>, -50)

\* |x - y| <= 2^-50 * |y|, computed exactly
Within(x, y) == XCmp(FAbs(XSub(x, y)), XMul(RoundingSlack, FAbs(y))) <= 0

\* C10 as the specification states it: coast_now holds exactly when
\* current_portfolio >= required_today_for_coast; required_today_for_coast
\* grown over years_to_retire is fire_number, required_at_coast_age grown
\* over years_from_coast_to_retire is fire_number, and required_at_coast_age
\* is fire_number when coast_age >= retire_age.
C10_AsStated ==
    /\ core # Unset =>
          /\ core.coast_now <=>
                FLe(core.required_today_for_coast, inputs.current_portfolio)
          /\ FEq(fv_lump_sum(core.required_today_for_coast, r, setup.years_to_retire),
                 core.fire_number)
    /\ coast # Unset =>
          /\ FEq(fv_lump_sum(coast.required_at_coast_age, r,
                             coast.years_from_coast_to_retire),
                 core.fire_number)
          /\ inputs.coast_age >= inputs.retire_age =>
                FEq(coast.required_at_coast_age, core.fire_number)

\* C10, amended: every rate of a run is > -1; coast_now agrees with
\* current_portfolio >= required_today_for_coast whenever the portfolio is
\* not within one part in 2^50 of required_today_for_coast;
\* required_today_for_coast grown over years_to_retire, and
\* required_at_coast_age grown over years_from_coast_to_retire, are
\* fire_number up to the rounding of floats (a relative error of at most
\* 2^-50), not always fire_number itself; required_at_coast_age is
\* fire_number when coast_age >= retire_age.
C10_RequiredAmounts ==
    /\ r # Unset => FLt(FInt(-1), r)
    /\ core # Unset =>
          /\ core.coast_now =>
                XCmp(XMul(core.required_today_for_coast, XSub(One, RoundingSlack)),
                     inputs.current_portfolio) <= 0
          /\ XCmp(XMul(core.required_today_for_coast, XAdd(One, RoundingSlack)),
                  inputs.current_portfolio) <= 0
                => core.coast_now
          /\ Within(fv_lump_sum(core.required_today_for_coast, r, setup.years_to_retire),
                    core.fire_number)
    /\ coast # Unset =>
          /\ coast.years_from_coast_to_retire =
                (IF inputs.retire_age > inputs.coast_age
                 THEN inputs.retire_age - inputs.coast_age ELSE 0)
          /\ Within(fv_lump_sum(coast.required_at_coast_age, r,
                                coast.years_from_coast_to_retire),
                    core.fire_number)
          /\ inputs.coast_age >= inputs.retire_age =>
                coast.required_at_coast_age = core.fire_number

C10_Witness ==
    /\ pc = "done"
    /\ core.coast_now
    /\ FLt(core.required_today_for_coast, inputs.current_portfolio)
    /\ FLt(inputs.current_portfolio, core.fire_number)
    /\ inputs.coast_age > inputs.current_age /\ inputs.coast_age < inputs.retire_age


(***************************************************************************)
(* Properties of the helpers (specification FnSpec)                        *)
(***************************************************************************)
Called(fn) == call.fn = fn

\* a rate the helpers treat as zero without its being zero: 0 < |r| < 1e-12
InsideTolerance(rate) == ~IsZero(rate) /\ FLt(FAbs(rate), Tolerance)

\* C5 as the specification states it: with a zero contribution
\* fv_with_contrib_annual returns what fv_lump_sum returns, for every pv, r
\* and n, in all three branches.
C5_AsStated ==
    (Called("fv_with_contrib_annual") /\ IsZero(call.c)) =>
       FEq(call.out, fv_lump_sum(call.pv, call.r, call.n))

\* C5, amended: with a zero contribution fv_with_contrib_annual returns
\* what fv_lump_sum returns for every pv, every n >= 0 and every rate that
\* is zero or at least 1e-12 in size (the n = 0 case, the r = 0 case and the
\* annuity formula).
C5_ZeroContribution ==
    (/\ Called("fv_with_contrib_annual")
     /\ IsZero(call.c)
     /\ call.n >= 0
     /\ ~InsideTolerance(call.r)) =>
       FEq(call.out, fv_lump_sum(call.pv, call.r, call.n))

C5_Witness ==
    /\ Called("fv_with_contrib_annual")
    /\ IsZero(call.c)
    /\ call.n = MaxN
    /\ FLe(Tolerance, FAbs(call.r))
    /\ ~IsZero(call.pv)
    /\ ~FEq(call.out, call.pv)

\* C6: pmt_to_reach_fv with n <= 0 returns 0 when pv >= fv_target and
\* otherwise inf, which is no finite payment (and is shown as a dash, not as
\* an amount).
C6_ZeroPeriods ==
    (Called("pmt_to_reach_fv") /\ call.n <= 0) =>
       IF FLe(call.target, call.pv)
       THEN IsNum(call.out) /\ IsZero(call.out)
       ELSE /\ call.out = Inf
            /\ ~IsNum(call.out)
            /\ call.out # Zero
            /\ money(call.out) = Dash

C6_Witness ==
    /\ Called("pmt_to_reach_fv")
    /\ call.n = 0
    /\ FLt(call.pv, call.target)
    /\ call.out = Inf

\* fv_with_contrib_annual never decreases when the contribution grows
ContribMonotone ==
    Called("fv_with_contrib_annual") =>
       \A c2 \in FnContribs :
          FLe(call.c, c2) =>
             FLe(call.out, fv_with_contrib_annual(call.pv, call.r, call.n, c2))

\* C7 as the specification states it: fv_with_contrib_annual never decreases
\* when the contribution grows, and with a contribution >= 0 the row of the
\* with-contribution series (line 214) is never below the row of the
\* no-contribution series (line 213) for the same year.
C7_AsStated ==
    /\ ContribMonotone
    /\ (Called("fv_with_contrib_annual") /\ call.n >= 0 /\ FLe(Zero, call.c)) =>
          FLe(fv_lump_sum(call.pv, call.r, call.n), call.out)

\* C7, amended: fv_with_contrib_annual never decreases when the contribution
\* grows (for the rates the inputs allow, all > -1); with a contribution >= 0
\* the with-contribution row is never below the no-contribution row unless
\* 0 < r < 1e-12.
C7_Monotone ==
    /\ ContribMonotone
    /\ (/\ Called("fv_with_contrib_annual")
        /\ call.n >= 0
        /\ FLe(Zero, call.c)
        /\ ~(FLt(Zero, call.r) /\ FLt(call.r, Tolerance))) =>
          FLe(fv_lump_sum(call.pv, call.r, call.n), call.out)

C7_Witness ==
    /\ Called("fv_with_contrib_annual")
    /\ call.n = MaxN
    /\ FLt(call.r, Zero)
    /\ FLe(Tolerance, FAbs(call.r))
    /\ FEq(call.c, FInt(50))
    /\ FLt(fv_lump_sum(call.pv, call.r, call.n), call.out)
    /\ FLt(call.out, fv_with_contrib_annual(call.pv, call.r, call.n, FInt(100)))

\* C9 as the specification states it: for n > 0, r > -1 and pv >= 0 the
\* payment p = pmt_to_reach_fv(pv, r, n, fv_target) is a finite number >= 0;
\* contributing p reaches the target, fv_with_contrib_annual(pv, r, n, p) >=
\* fv_target, with equality when p > 0; and p = 0 exactly when the portfolio
\* alone reaches it.
C9_AsStated ==
    (Called("pmt_to_reach_fv") /\ call.n > 0) =>
       /\ IsNum(call.out)
       /\ FLe(Zero, call.out)
       /\ FLe(call.target,
              fv_with_contrib_annual(call.pv, call.r, call.n, call.out))
       /\ FLt(Zero, call.out) =>
             FEq(fv_with_contrib_annual(call.pv, call.r, call.n, call.out),
                 call.target)

\* C9, amended: for n > 0 (every rate being > -1 and every pv >= 0) the
\* payment p = pmt_to_reach_fv(pv, r, n, fv_target) is a finite number >= 0;
\* when p > 0, contributing p gives the target up to the rounding of floats
\* (a relative error of at most 2^-50, above or below the target); p = 0
\* exactly when the portfolio alone reaches the target (pv >= fv_target
\* where the rate counts as zero, fv_lump_sum(pv, r, n) >= fv_target
\* elsewhere), and then fv_with_contrib_annual(pv, r, n, 0) >= fv_target.
C9_PaymentSolver ==
    (Called("pmt_to_reach_fv") /\ call.n > 0) =>
       /\ FLt(FInt(-1), call.r) /\ FLe(Zero, call.pv)
       /\ IsNum(call.out)
       /\ FLe(Zero, call.out)
       /\ FLt(Zero, call.out) =>
             Within(fv_with_contrib_annual(call.pv, call.r, call.n, call.out),
                    call.target)
       /\ IsZero(call.out) =>
             FLe(call.target,
                 fv_with_contrib_annual(call.pv, call.r, call.n, call.out))
       /\ IsZero(call.out) <=>
             IF FLt(FAbs(call.r), Tolerance)
             THEN FLe(call.target, call.pv)
             ELSE FLe(call.target, fv_lump_sum(call.pv, call.r, call.n))

\* a positive payment that leaves the balance just below the target
C9_Witness ==
    /\ Called("pmt_to_reach_fv")
    /\ call.n = MaxN
    /\ FLe(Tolerance, FAbs(call.r))
    /\ ~IsZero(call.pv)
    /\ FLt(Zero, call.out)
    /\ FLt(fv_with_contrib_annual(call.pv, call.r, call.n, call.out), call.target)

=============================================================================
